---- MODULE Spec2Model ----
(***************************************************************************)
(* Model of the Wolves pipeline:                                           *)
(*   src/nba-twolves-pipeline/wolves_extractor.py  (fetch_games,           *)
(*       fetch_boxscores, main)                                            *)
(*   src/dags/wolves_pipeline.py                   (extract_and_load_data) *)
(* Time is counted in tenths of a second.  The upstream API, the file      *)
(* system and the warehouse are the environment: their successes and       *)
(* failures are nondeterministic choices of the actions.                   *)
(***************************************************************************)
EXTENDS Integers, Sequences, FiniteSets, TLC

(* ---------------------------- bounds ----------------------------------- *)
MaxIds == 2          \* game ids are 1..MaxIds, id sequences have <= MaxIds elements
MaxPlayers == 2      \* a box score holds <= MaxPlayers player rows
MaxCallDur == 1      \* an upstream call takes 0..MaxCallDur tenths of a second
MaxRuns == 2         \* number of task runs explored
MaxDay == 2          \* calendar dates are 1..MaxDay

(* ------------------------ program constants ---------------------------- *)
RATE_LIMIT_SLEEP == 6   \* time.sleep(0.6), in tenths of a second

GameIds == 1..MaxIds
Players == 1..MaxPlayers
Kinds == {"games", "player_stats"}

\* file_names = ['games', 'player_stats']
file_names == <<"games", "player_stats">>

\* table_mapping
table_mapping == [games |-> "GAMES", player_stats |-> "PLAYER_STATS"]

(* ------------------------ sequences helpers ---------------------------- *)
SeqsUpTo(S, n) == UNION {[1..k -> S] : k \in 0..n}

Prefixes(s) == {SubSeq(s, 1, k) : k \in 0..Len(s)}

ProperPrefixes(s) == Prefixes(s) \ {s}

RECURSIVE Flatten(_)
Flatten(ss) == IF ss = <<>> THEN <<>> ELSE Head(ss) \o Flatten(Tail(ss))

(* ------------------------ data frames ---------------------------------- *)
\* Columns the upstream endpoints return (a representative part of the
\* nba_api result sets: columns the rename maps consume and columns they
\* do not).
RawGameCols == {"Team_ID", "Game_ID", "GAME_DATE", "MATCHUP", "WL", "W", "L",
                "W_PCT", "MIN", "PTS", "FG_PCT", "FT_PCT", "REB", "AST", "TOV"}

RawBoxCols == {"GAME_ID", "TEAM_ID", "TEAM_ABBREVIATION", "TEAM_CITY",
               "PLAYER_ID", "PLAYER_NAME", "START_POSITION", "COMMENT",
               "MIN", "PTS", "FGM", "FGA", "FG_PCT", "FG3M", "FG3A", "FG3_PCT",
               "FTM", "FTA", "FT_PCT", "OREB", "DREB", "REB", "AST", "STL",
               "BLK", "TO", "PF", "PLUS_MINUS"}

\* rename map of fetch_games
GamesRenameMap ==
  [c \in {"Game_ID", "GAME_DATE", "MATCHUP", "WL", "W", "L", "PTS", "FG_PCT",
          "FT_PCT", "REB", "AST", "TOV"} |->
     CASE c = "Game_ID" -> "game_id"
       [] c = "GAME_DATE" -> "game_date"
       [] c = "MATCHUP" -> "matchup"
       [] c = "WL" -> "result"
       [] c = "W" -> "wins"
       [] c = "L" -> "losses"
       [] c = "PTS" -> "team_points"
       [] c = "FG_PCT" -> "team_fg_pct"
       [] c = "FT_PCT" -> "team_ft_pct"
       [] c = "REB" -> "team_rebounds"
       [] c = "AST" -> "team_assists"
       [] c = "TOV" -> "team_turnovers"]

\* rename map of fetch_boxscores
BoxRenameMap ==
  [c \in {"PLAYER_ID", "PLAYER_NAME", "TEAM_ID", "TEAM_ABBREVIATION", "MIN",
          "PTS", "FGM", "FGA", "FG_PCT", "FG3M", "FG3A", "FG3_PCT", "FTM",
          "FTA", "FT_PCT", "OREB", "DREB", "REB", "AST", "STL", "BLK", "TO"} |->
     CASE c = "PLAYER_ID" -> "player_id"
       [] c = "PLAYER_NAME" -> "player_name"
       [] c = "TEAM_ID" -> "team_id"
       [] c = "TEAM_ABBREVIATION" -> "team_abbr"
       [] c = "MIN" -> "minutes"
       [] c = "PTS" -> "points"
       [] c = "FGM" -> "fg_made"
       [] c = "FGA" -> "fg_attempts"
       [] c = "FG_PCT" -> "fg_pct"
       [] c = "FG3M" -> "fg3_made"
       [] c = "FG3A" -> "fg3_attempts"
       [] c = "FG3_PCT" -> "fg3_pct"
       [] c = "FTM" -> "ft_made"
       [] c = "FTA" -> "ft_attempts"
       [] c = "FT_PCT" -> "ft_pct"
       [] c = "OREB" -> "offensive_rebounds"
       [] c = "DREB" -> "defensive_rebounds"
       [] c = "REB" -> "total_rebounds"
       [] c = "AST" -> "assists"
       [] c = "STL" -> "steals"
       [] c = "BLK" -> "blocks"
       [] c = "TO" -> "turnovers"]

\* DataFrame.rename(columns=m): a column that is a key of m gets its new
\* name, every other column keeps its name.
Rename(m, cols) == {IF c \in DOMAIN m THEN m[c] ELSE c : c \in cols}

\* pd.DataFrame(): no columns, no rows
EmptyDataFrame == [cols |-> {}, rows |-> <<>>]

\* DataFrame.empty: some axis has length 0
IsEmpty(df) == df.rows = <<>> \/ df.cols = {}

\* player_stats['game_id'] = game_id: every row of the batch gets the id
TagBatchFirstId(batch, game_id) ==
  [cols |-> RawBoxCols \cup {"game_id"},
   rows |-> [k \in DOMAIN batch |-> [game_id |-> 1, player |-> batch[k]]]]

TagBatch(batch, game_id) ==
  [cols |-> RawBoxCols \cup {"game_id"},
   rows |-> [k \in DOMAIN batch |-> [game_id |-> game_id, player |-> batch[k]]]]

\* pd.concat(frames, ignore_index=True)
RECURSIVE ConcatRows(_)
ConcatRows(frames) ==
  IF frames = <<>> THEN <<>> ELSE Head(frames).rows \o ConcatRows(Tail(frames))

ConcatReversed(frames) ==
  [cols |-> UNION {frames[k].cols : k \in DOMAIN frames},
   rows |-> ConcatRows([k \in DOMAIN frames |-> frames[Len(frames) + 1 - k]])]

Concat(frames) ==
  [cols |-> UNION {frames[k].cols : k \in DOMAIN frames},
   rows |-> ConcatRows(frames)]

\* A file that does not exist
NoFile == [exists |-> FALSE, cols |-> {}, rows |-> <<>>]

\* DataFrame.to_csv(path, index=False), completed
CsvOf(df) == [exists |-> TRUE, cols |-> df.cols, rows |-> df.rows]

\* A directory data/raw/<date> that does not exist
NoDir == [exists |-> FALSE, files |-> [k \in {"games", "player_stats"} |-> NoFile]]

\* What to_csv can leave at the path when it raises: the old file (the open
\* failed) or a truncated file holding a proper prefix of the rows.
FailedWriteResults(old, df) ==
  {old} \cup {[exists |-> TRUE, cols |-> df.cols, rows |-> p] : p \in ProperPrefixes(df.rows)}


(* ------------------------ warehouse ------------------------------------ *)
\* COPY INTO <table> FROM @CSV_STAGE/<name>.gz FORCE = TRUE: the rows of the
\* staged object are appended to the table, whether or not the object was
\* loaded before.
CopyIntoTruncating(table, staged) == staged.rows

CopyInto(table, staged) == table \o staged.rows

\* ON_ERROR = 'ABORT_STATEMENT': a COPY that fails loads nothing.
CopyAbortPartial(table, staged) ==
  table \o SubSeq(staged.rows, 1, Len(staged.rows) - 1)

CopyAbort(table, staged) == table

\* PUT file://... @CSV_STAGE AUTO_COMPRESS=TRUE (OVERWRITE is not given): the
\* object is named after the file alone (games.csv.gz, player_stats.csv.gz).
\* A connector that skips an upload whose name is already staged keeps the
\* old object; one that compares digests replaces an object that differs.
PutResult(skips, old, file) == IF skips /\ old.exists THEN old ELSE file

(* ------------------------ state ---------------------------------------- *)
VARIABLES
  gameLog,          \* upstream: ids TeamGameLog returns when the call succeeds
  boxData,          \* upstream: player rows BoxScoreTraditionalV2 returns per id
  putSkipsExisting, \* warehouse connector: PUT skips a name already staged
  day,              \* the calendar date, counted in days
  today_str,        \* the task's today_str: the date it computed at its start
  ext_today,        \* the extractor's today_str of this run, 0 before it is computed
  dirExists,        \* data/raw/<today_str of the task> exists
  files,            \* data/raw/<today_str of the task>/<kind>.csv
  lateDir,          \* data/raw/<the day after the task's today_str>
  stage,            \* @CSV_STAGE/<kind>.csv.gz
  tables,           \* rows of GAMES and PLAYER_STATS
  runs,             \* task runs started
  prev,             \* record of the previous finished run
  pc,               \* position of the task / of the extractor it runs
  kidx,             \* index of the load loop in file_names
  cwd,              \* process working directory of the task
  conn,             \* warehouse connection: none, open, closed
  cursor,           \* warehouse cursor: none, open, closed
  ops,              \* warehouse commands issued in this run
  outcome,          \* none, success, failed: what the task reports
  tables0,          \* tables when this run started
  files0, dir0,     \* files and dirExists when this run started
  games_df, game_ids, player_stats_df,   \* locals of main
  i, all_player_stats,                   \* locals of fetch_boxscores
  clock,            \* time since fetch_boxscores was entered
  trace,            \* child calls and sleeps of this fetch_boxscores call
  errlog,           \* ids printed by the except branch of fetch_boxscores
  resp,             \* upstream responses of this run
  extAbort,         \* why main ended early: none, no_games, no_players, mkdir, signal
  written,          \* kinds whose to_csv completed in this run
  wfail             \* kinds whose to_csv raised in this run

envVars == <<gameLog, boxData, putSkipsExisting>>

dateVars == <<day, today_str, ext_today, lateDir>>

diskVars == <<dirExists, files>>

whVars == <<stage, tables>>

taskVars == <<kidx, cwd, conn, cursor, ops, outcome>>

histVars == <<runs, prev, tables0, files0, dir0>>

mainVars == <<games_df, game_ids, player_stats_df, extAbort, written, wfail>>

fetchVars == <<i, all_player_stats, clock, trace, errlog>>

vars == <<envVars, dateVars, diskVars, whVars, taskVars, histVars, mainVars, fetchVars, pc, resp>>

\* The box scores the upstream may hold: up to MaxPlayers rows, in ascending
\* or in descending order of the player.
BatchSet ==
  {<<>>} \cup {[k \in 1..n |-> k] : n \in 1..MaxPlayers}
         \cup {[k \in 1..n |-> n + 1 - k] : n \in 1..MaxPlayers}

Range(s) == {s[k] : k \in DOMAIN s}

NoResp == [games |-> "none", box |-> <<>>]

NoPrev == [valid |-> FALSE, clean |-> FALSE, resp |-> NoResp,
           files |-> [k \in Kinds |-> NoFile],
           tables0 |-> [k \in Kinds |-> <<>>],
           tables1 |-> [k \in Kinds |-> <<>>]]

\* The season the pipeline specification runs against.
SeasonLog == <<1, 2>>

SeasonBox == [g \in GameIds |-> <<1>>]

\* Everything but the upstream and the position: the state before any run.
Fresh ==
  /\ day = 1
  /\ today_str = 1
  /\ ext_today = 0
  /\ dirExists = FALSE
  /\ files = [k \in Kinds |-> NoFile]
  /\ lateDir = NoDir
  /\ stage = [k \in Kinds |-> NoFile]
  /\ tables = [k \in Kinds |-> <<>>]
  /\ runs = 0
  /\ prev = NoPrev
  /\ kidx = 1
  /\ cwd = "airflow_home"
  /\ conn = "none"
  /\ cursor = "none"
  /\ ops = <<>>
  /\ outcome = "none"
  /\ tables0 = [k \in Kinds |-> <<>>]
  /\ files0 = [k \in Kinds |-> NoFile]
  /\ dir0 = FALSE
  /\ player_stats_df = EmptyDataFrame
  /\ i = 1
  /\ all_player_stats = <<>>
  /\ clock = 0
  /\ trace = <<>>
  /\ errlog = <<>>
  /\ extAbort = "none"
  /\ written = {}
  /\ wfail = {}

Init ==
  /\ Fresh
  /\ gameLog \in Prefixes(SeasonLog)
  /\ boxData = SeasonBox
  /\ putSkipsExisting \in BOOLEAN
  /\ pc = "idle"
  /\ games_df = EmptyDataFrame
  /\ game_ids = <<>>
  /\ resp = NoResp

\* fetch_boxscores on its own: any id sequence, any upstream box scores.
InitFetch ==
  /\ Fresh
  /\ gameLog = <<>>
  /\ game_ids \in SeqsUpTo(GameIds, MaxIds)
  /\ boxData \in {b \in [GameIds -> BatchSet] :
                    \A g \in GameIds \ Range(game_ids) : b[g] = <<>>}
  /\ putSkipsExisting = FALSE
  /\ pc = "box_loop"
  /\ games_df = [cols |-> Rename(GamesRenameMap, RawGameCols), rows |-> game_ids]
  /\ resp = [games |-> "ok", box |-> <<>>]


(* ------------------------ fetch_boxscores ------------------------------ *)
\* if i < len(game_ids) - 1: time.sleep(0.6)   (i counts from 0 in the code,
\* from 1 here: the iteration of the last id is the one that does not sleep)
SleepAfter(idx, n) == IF idx < n THEN RATE_LIMIT_SLEEP ELSE 0

\* The for loop moves to the next element after the try block and after
\* the except block alike.
NextIndexSkipping(idx) == idx + 2

NextIndex(idx) == idx + 1

\* except Exception as e: print(f"  ERROR processing game {game_id}: {e}")
PrintErrorNothing(log, game_id) == log

PrintError(log, game_id) == Append(log, game_id)

CallEvent(game_id, at, ok) == [ev |-> "call", id |-> game_id, at |-> at, ok |-> ok]

SleepEvent(at) == [ev |-> "sleep", id |-> 0, at |-> at, ok |-> TRUE]

\* One iteration whose try block runs to its end: the call returns the box
\* score, the batch is tagged and appended, and the loop sleeps unless this
\* was the last id.
BoxSuccess ==
  /\ pc = "box_loop"
  /\ i <= Len(game_ids)
  /\ \E d \in 0..MaxCallDur :
       LET game_id == game_ids[i]
           sl == SleepAfter(i, Len(game_ids))
       IN /\ all_player_stats' = Append(all_player_stats, TagBatch(boxData[game_id], game_id))
          /\ trace' = trace \o <<CallEvent(game_id, clock, TRUE)>>
                            \o (IF sl > 0 THEN <<SleepEvent(clock + d)>> ELSE <<>>)
          /\ clock' = clock + d + sl
  /\ resp' = [resp EXCEPT !.box = Append(@, TRUE)]
  /\ i' = NextIndex(i)
  /\ UNCHANGED <<envVars, dateVars, diskVars, whVars, taskVars, histVars, mainVars, errlog, pc>>

\* One iteration whose call raises: the except branch prints the error and
\* the loop goes on with the next id.
BoxFailure ==
  /\ pc = "box_loop"
  /\ i <= Len(game_ids)
  /\ \E d \in 0..MaxCallDur :
       LET game_id == game_ids[i]
       IN /\ trace' = Append(trace, CallEvent(game_id, clock, FALSE))
          /\ clock' = clock + d
          /\ errlog' = PrintError(errlog, game_id)
  /\ resp' = [resp EXCEPT !.box = Append(@, FALSE)]
  /\ i' = NextIndex(i)
  /\ UNCHANGED <<envVars, dateVars, diskVars, whVars, taskVars, histVars, mainVars, all_player_stats, pc>>

\* print("WARNING: No player stats data collected!"); return pd.DataFrame()
NoStatsFrameWithSchema ==
  [cols |-> Rename(BoxRenameMap, RawBoxCols \cup {"game_id"}), rows |-> <<>>]

NoStatsFrame == EmptyDataFrame

\* After the loop: concatenate and rename, or return pd.DataFrame() when no
\* batch was collected.
BoxAssemble ==
  /\ pc = "box_loop"
  /\ i > Len(game_ids)
  /\ player_stats_df' =
       IF all_player_stats # <<>>
       THEN LET c == Concat(all_player_stats)
            IN [cols |-> Rename(BoxRenameMap, c.cols), rows |-> c.rows]
       ELSE NoStatsFrame
  /\ pc' = "main_players"
  /\ UNCHANGED <<envVars, dateVars, diskVars, whVars, taskVars, histVars, fetchVars, resp,
                 games_df, game_ids, extAbort, written, wfail>>

\* The value fetch_boxscores returns: the data frame and nothing else.
FetchBoxscoresReturn == <<player_stats_df>>

NextFetch == BoxSuccess \/ BoxFailure \/ BoxAssemble

SpecFetch == InitFetch /\ [][NextFetch]_vars


(* ------------------------ fetch_games, main ---------------------------- *)
\* except Exception as e: ... return pd.DataFrame()
FetchGamesOnErrorStale == [cols |-> Rename(GamesRenameMap, RawGameCols), rows |-> <<1>>]

FetchGamesOnError == EmptyDataFrame

\* The call succeeds: the game log, columns renamed.
FetchGamesOk ==
  /\ pc = "fetch_games"
  /\ games_df' = [cols |-> Rename(GamesRenameMap, RawGameCols), rows |-> gameLog]
  /\ resp' = [resp EXCEPT !.games = "ok"]
  /\ pc' = "main_games"
  /\ UNCHANGED <<envVars, dateVars, diskVars, whVars, taskVars, histVars, fetchVars,
                 game_ids, player_stats_df, extAbort, written, wfail>>

\* The call or the parsing of its answer raises.
FetchGamesFail ==
  /\ pc = "fetch_games"
  /\ games_df' = FetchGamesOnError
  /\ resp' = [resp EXCEPT !.games = "fail"]
  /\ pc' = "main_games"
  /\ UNCHANGED <<envVars, dateVars, diskVars, whVars, taskVars, histVars, fetchVars,
                 game_ids, player_stats_df, extAbort, written, wfail>>

\* if games_df.empty: print(...); return
\* The extractor process then ends with exit status 0 and subprocess.run
\* returns to the task.
MainNoGames ==
  /\ pc = "main_games"
  /\ IsEmpty(games_df)
  /\ extAbort' = "no_games"
  /\ pc' = "check_files"
  /\ UNCHANGED <<envVars, dateVars, diskVars, whVars, taskVars, histVars, fetchVars, resp,
                 games_df, game_ids, player_stats_df, written, wfail>>

\* game_ids = games_df['game_id'].tolist(); fetch_boxscores(game_ids) is entered
MainHasGames ==
  /\ pc = "main_games"
  /\ ~IsEmpty(games_df)
  /\ game_ids' = games_df.rows
  /\ i' = 1
  /\ all_player_stats' = <<>>
  /\ clock' = 0
  /\ trace' = <<>>
  /\ errlog' = <<>>
  /\ pc' = "box_loop"
  /\ UNCHANGED <<envVars, dateVars, diskVars, whVars, taskVars, histVars, resp,
                 games_df, player_stats_df, extAbort, written, wfail>>

\* if player_stats_df.empty: print(...); return
MainNoPlayersAfterMkdir ==
  /\ pc = "main_players"
  /\ IsEmpty(player_stats_df)
  /\ extAbort' = "no_players"
  /\ dirExists' = TRUE
  /\ pc' = "check_files"
  /\ i' = 1 /\ all_player_stats' = <<>> /\ clock' = 0 /\ trace' = <<>>
  /\ UNCHANGED <<envVars, dateVars, files, whVars, taskVars, histVars, resp, errlog,
                 games_df, game_ids, player_stats_df, written, wfail>>

MainNoPlayers ==
  /\ pc = "main_players"
  /\ IsEmpty(player_stats_df)
  /\ extAbort' = "no_players"
  /\ pc' = "check_files"
  /\ i' = 1 /\ all_player_stats' = <<>> /\ clock' = 0 /\ trace' = <<>>
  /\ UNCHANGED <<envVars, dateVars, diskVars, whVars, taskVars, histVars, resp, errlog,
                 games_df, game_ids, player_stats_df, written, wfail>>

\* output_dir.mkdir(parents=True, exist_ok=True) succeeds
MainMkdirOk ==
  /\ pc = "main_players"
  /\ ~IsEmpty(player_stats_df)
  /\ ext_today' = day
  /\ IF day = today_str
       THEN dirExists' = TRUE /\ UNCHANGED lateDir
       ELSE lateDir' = [lateDir EXCEPT !.exists = TRUE] /\ UNCHANGED dirExists
  /\ pc' = "write_games"
  /\ i' = 1 /\ all_player_stats' = <<>> /\ clock' = 0 /\ trace' = <<>>
  /\ UNCHANGED <<envVars, day, today_str, files, whVars, taskVars, histVars, resp, errlog, mainVars>>

\* mkdir raises: print(...); return
MainMkdirFail ==
  /\ pc = "main_players"
  /\ ~IsEmpty(player_stats_df)
  /\ extAbort' = "mkdir"
  /\ ext_today' = day
  /\ pc' = "check_files"
  /\ i' = 1 /\ all_player_stats' = <<>> /\ clock' = 0 /\ trace' = <<>>
  /\ UNCHANGED <<envVars, day, today_str, lateDir, diskVars, whVars, taskVars, histVars, resp, errlog,
                 games_df, game_ids, player_stats_df, written, wfail>>

\* output_dir = Path(f"data/raw/{today_str}") with the extractor's today_str:
\* the files at output_dir / "<kind>.csv"
OutFiles == IF ext_today = today_str THEN files ELSE lateDir.files

\* to_csv leaves f at output_dir / "<kind>.csv"
WriteTo(kind, f) ==
  IF ext_today = today_str
    THEN files' = [files EXCEPT ![kind] = f] /\ UNCHANGED lateDir
    ELSE lateDir' = [lateDir EXCEPT !.files[kind] = f] /\ UNCHANGED files

\* games_df.to_csv(games_csv_path, index=False) completes
WriteGamesOk ==
  /\ pc = "write_games"
  /\ WriteTo("games", CsvOf(games_df))
  /\ written' = written \cup {"games"}
  /\ pc' = "write_players"
  /\ UNCHANGED <<envVars, day, today_str, ext_today, dirExists, whVars, taskVars, histVars,
                 fetchVars, resp,
                 games_df, game_ids, player_stats_df, extAbort, wfail>>

\* to_csv raises: the except branch prints and main goes on
WriteGamesFail ==
  /\ pc = "write_games"
  /\ \E f \in FailedWriteResults(OutFiles["games"], games_df) : WriteTo("games", f)
  /\ wfail' = wfail \cup {"games"}
  /\ pc' = "write_players"
  /\ UNCHANGED <<envVars, day, today_str, ext_today, dirExists, whVars, taskVars, histVars,
                 fetchVars, resp,
                 games_df, game_ids, player_stats_df, extAbort, written>>

\* player_stats_df.to_csv(player_stats_csv_path, index=False) completes; main
\* returns and the extractor ends with exit status 0
WritePlayersOk ==
  /\ pc = "write_players"
  /\ WriteTo("player_stats", CsvOf(player_stats_df))
  /\ written' = written \cup {"player_stats"}
  /\ pc' = "check_files"
  /\ UNCHANGED <<envVars, day, today_str, ext_today, dirExists, whVars, taskVars, histVars,
                 fetchVars, resp,
                 games_df, game_ids, player_stats_df, extAbort, wfail>>

WritePlayersFail ==
  /\ pc = "write_players"
  /\ \E f \in FailedWriteResults(OutFiles["player_stats"], player_stats_df) :
       WriteTo("player_stats", f)
  /\ wfail' = wfail \cup {"player_stats"}
  /\ pc' = "check_files"
  /\ UNCHANGED <<envVars, day, today_str, ext_today, dirExists, whVars, taskVars, histVars,
                 fetchVars, resp,
                 games_df, game_ids, player_stats_df, extAbort, written>>

(* ------------------------ extract_and_load_data ------------------------ *)
\* data_dir = Path(f"data/raw/{today_str}") for the date d the task computes
\* at its start: the directory it used before when the date is the same, the
\* directory of the day after when the date moved on by one, a directory no
\* run has written to otherwise.
DirOfDate(d) ==
  IF d = today_str THEN [exists |-> dirExists, files |-> files]
  ELSE IF d = today_str + 1 THEN lateDir
  ELSE NoDir

\* What the finished run leaves for the record of the previous run.
RunRecord ==
  [valid |-> TRUE,
   clean |-> outcome = "success" /\ written = Kinds /\ wfail = {},
   resp |-> resp, files |-> files, tables0 |-> tables0, tables1 |-> tables]

\* The task starts in a fresh task process: today_str is computed, the
\* process changes to script_dir and starts the extractor.
TaskStart ==
  /\ pc \in {"idle", "done"}
  /\ runs < MaxRuns
  /\ runs' = runs + 1
  /\ prev' = IF pc = "done" THEN RunRecord ELSE prev
  /\ tables0' = tables
  /\ today_str' = day
  /\ ext_today' = 0
  /\ dirExists' = DirOfDate(day).exists
  /\ files' = DirOfDate(day).files
  /\ lateDir' = IF day = today_str THEN lateDir ELSE NoDir
  /\ files0' = files'
  /\ dir0' = dirExists'
  /\ cwd' = "script_dir"
  /\ conn' = "none" /\ cursor' = "none" /\ ops' = <<>> /\ outcome' = "none" /\ kidx' = 1
  /\ games_df' = EmptyDataFrame /\ game_ids' = <<>> /\ player_stats_df' = EmptyDataFrame
  /\ extAbort' = "none" /\ written' = {} /\ wfail' = {}
  /\ i' = 1 /\ all_player_stats' = <<>> /\ clock' = 0 /\ trace' = <<>> /\ errlog' = <<>>
  /\ resp' = NoResp
  /\ pc' = "fetch_games"
  /\ UNCHANGED <<envVars, day, whVars>>

\* The directory and both files exist: os.chdir(original_cwd)
FilesPresent == dirExists /\ \A k \in Kinds : files[k].exists

TaskCheckFilesOk ==
  /\ pc = "check_files"
  /\ FilesPresent
  /\ cwd' = "airflow_home"
  /\ pc' = "connect"
  /\ UNCHANGED <<envVars, dateVars, diskVars, whVars, histVars, mainVars, fetchVars, resp,
                 kidx, conn, cursor, ops, outcome>>

\* raise AirflowException("Extractor failed ..."), re-raised by except Exception
TaskCheckFilesMissing ==
  /\ pc = "check_files"
  /\ ~FilesPresent
  /\ outcome' = "failed"
  /\ pc' = "done"
  /\ UNCHANGED <<envVars, dateVars, diskVars, whVars, histVars, mainVars, fetchVars, resp,
                 kidx, cwd, conn, cursor, ops>>

\* snowflake.connector.connect(...) and conn.cursor()
ConnectOk ==
  /\ pc = "connect"
  /\ conn' = "open"
  /\ cursor' = "open"
  /\ kidx' = 1
  /\ pc' = "put"
  /\ UNCHANGED <<envVars, dateVars, diskVars, whVars, histVars, mainVars, fetchVars, resp,
                 cwd, ops, outcome>>

\* raise AirflowException("Failed to get Snowflake connection ...")
ConnectFail ==
  /\ pc = "connect"
  /\ outcome' = "failed"
  /\ pc' = "done"
  /\ UNCHANGED <<envVars, dateVars, diskVars, whVars, histVars, mainVars, fetchVars, resp,
                 kidx, cwd, conn, cursor, ops>>

\* csv_file_path.name
CsvName(file_name) == <<file_name, ".csv">>

\* PUT file://<csv_file_path> @CSV_STAGE AUTO_COMPRESS=TRUE stages the file
\* under its name with .gz added.
PutObject(file_name) == CsvName(file_name) \o <<".gz">>

\* COPY INTO ... FROM @CSV_STAGE/{csv_file_path.name}.gz
CopyObjectUncompressed(file_name) == CsvName(file_name)

CopyObject(file_name) == CsvName(file_name) \o <<".gz">>

Op(cmd, kind, ok) ==
  [cmd |-> cmd, kind |-> kind, ok |-> ok,
   object |-> IF cmd = "PUT" THEN PutObject(kind) ELSE CopyObject(kind)]

\* An error raised inside the for loop leaves the loop and the try block:
\* the except clauses re-raise it as AirflowException.
LoadErrorContinues(k) ==
  [pc |-> IF k < Len(file_names) THEN "put" ELSE "close",
   kidx |-> IF k < Len(file_names) THEN k + 1 ELSE k,
   outcome |-> "none"]

LoadErrorNext(k) == [pc |-> "done", kidx |-> k, outcome |-> "failed"]

\* The existence check and the PUT of file_names[kidx], the PUT succeeding
LoadPutOk ==
  /\ pc = "put"
  /\ LET k == file_names[kidx]
     IN /\ files[k].exists
        /\ stage' = [stage EXCEPT ![k] = PutResult(putSkipsExisting, @, files[k])]
        /\ ops' = Append(ops, Op("PUT", k, TRUE))
  /\ pc' = "copy"
  /\ UNCHANGED <<envVars, dateVars, diskVars, tables, histVars, mainVars, fetchVars, resp,
                 kidx, cwd, conn, cursor, outcome>>

\* The file is not there (AirflowException) or cursor.execute(put_command) raises
LoadPutFail ==
  /\ pc = "put"
  /\ LET k == file_names[kidx]
     IN ops' = IF files[k].exists THEN Append(ops, Op("PUT", k, FALSE)) ELSE ops
  /\ pc' = LoadErrorNext(kidx).pc
  /\ kidx' = LoadErrorNext(kidx).kidx
  /\ outcome' = LoadErrorNext(kidx).outcome
  /\ UNCHANGED <<envVars, dateVars, diskVars, whVars, histVars, mainVars, fetchVars, resp,
                 cwd, conn, cursor>>

\* COPY INTO table_mapping[file_name] succeeds; the loop goes to the next file
LoadCopyOk ==
  /\ pc = "copy"
  /\ LET k == file_names[kidx]
     IN /\ tables' = [tables EXCEPT ![k] = CopyInto(@, stage[k])]
        /\ ops' = Append(ops, Op("COPY", k, TRUE))
  /\ IF kidx < Len(file_names)
       THEN pc' = "put" /\ kidx' = kidx + 1
       ELSE pc' = "close" /\ kidx' = kidx
  /\ UNCHANGED <<envVars, dateVars, diskVars, stage, histVars, mainVars, fetchVars, resp,
                 cwd, conn, cursor, outcome>>

\* cursor.execute(copy_command) raises: the statement is aborted
LoadCopyFail ==
  /\ pc = "copy"
  /\ LET k == file_names[kidx]
     IN /\ tables' = [tables EXCEPT ![k] = CopyAbort(@, stage[k])]
        /\ ops' = Append(ops, Op("COPY", k, FALSE))
  /\ pc' = LoadErrorNext(kidx).pc
  /\ kidx' = LoadErrorNext(kidx).kidx
  /\ outcome' = LoadErrorNext(kidx).outcome
  /\ UNCHANGED <<envVars, dateVars, diskVars, stage, histVars, mainVars, fetchVars, resp,
                 cwd, conn, cursor>>

\* cursor.close(); conn.close(); the task returns
TaskClose ==
  /\ pc = "close"
  /\ cursor' = "closed"
  /\ conn' = "closed"
  /\ outcome' = "success"
  /\ pc' = "done"
  /\ UNCHANGED <<envVars, dateVars, diskVars, whVars, histVars, mainVars, fetchVars, resp,
                 kidx, cwd, ops>>

\* A signal reaches the extractor while calls are left to make.  SIGTERM
\* ends the process; SIGINT raises KeyboardInterrupt, which "except
\* Exception" does not catch.  Either way the extractor ends with a non-zero
\* status and nothing written, and subprocess.run(check=True) raises
\* CalledProcessError, which the task re-raises as AirflowException.
InterruptNextGraceful(idx, stats, n) ==
  [pc |-> "box_loop", i |-> n + 1, stats |-> stats, outcome |-> "none"]

InterruptNext(idx, stats, n) ==
  [pc |-> "done", i |-> 1, stats |-> <<>>, outcome |-> "failed"]

ExtractorInterrupted ==
  /\ pc = "box_loop"
  /\ i <= Len(game_ids)
  /\ extAbort' = "signal"
  /\ LET nx == InterruptNext(i, all_player_stats, Len(game_ids))
     IN /\ pc' = nx.pc
        /\ i' = nx.i
        /\ all_player_stats' = nx.stats
        /\ outcome' = nx.outcome
  /\ clock' = 0
  /\ trace' = <<>>
  /\ UNCHANGED <<envVars, dateVars, diskVars, whVars, histVars, resp, errlog,
                 games_df, game_ids, player_stats_df, written, wfail,
                 kidx, cwd, conn, cursor, ops>>

Next ==
  \/ TaskStart
  \/ FetchGamesOk \/ FetchGamesFail
  \/ MainNoGames \/ MainHasGames
  \/ BoxSuccess \/ BoxFailure \/ BoxAssemble \/ ExtractorInterrupted
  \/ MainNoPlayers \/ MainMkdirOk \/ MainMkdirFail
  \/ WriteGamesOk \/ WriteGamesFail \/ WritePlayersOk \/ WritePlayersFail
  \/ TaskCheckFilesOk \/ TaskCheckFilesMissing
  \/ ConnectOk \/ ConnectFail
  \/ LoadPutOk \/ LoadPutFail \/ LoadCopyOk \/ LoadCopyFail
  \/ TaskClose

Spec == Init /\ [][Next]_vars

\* Midnight passes. A run is taken to cross at most one midnight; between
\* runs any number of days up to MaxDay may pass.
DayTick ==
  /\ day < MaxDay
  /\ pc \in {"idle", "done"} \/ day = today_str
  /\ day' = day + 1
  /\ UNCHANGED <<envVars, today_str, ext_today, lateDir, diskVars, whVars, taskVars,
                 histVars, mainVars, fetchVars, pc, resp>>

NextDate == Next \/ DayTick

\* The task runs of Spec with the calendar date moving on
SpecDate == Init /\ [][NextDate]_vars

(* ------------------------ observations of a fetch ---------------------- *)
MIN_INTERVAL == 6    \* "at least 0.6s between calls", in tenths of a second

IsCall(e) == e.ev = "call"

CallsOf(tr) == SelectSeq(tr, IsCall)

CallIds(tr) == [k \in DOMAIN CallsOf(tr) |-> CallsOf(tr)[k].id]

\* The elements ids[k] whose flag is want, in order.
RECURSIVE IdsWhere(_, _, _)
IdsWhere(ids, flags, want) ==
  IF ids = <<>> \/ flags = <<>> THEN <<>>
  ELSE (IF Head(flags) = want THEN <<Head(ids)>> ELSE <<>>)
         \o IdsWhere(Tail(ids), Tail(flags), want)

SucceededIds == IdsWhere(game_ids, resp.box, TRUE)

FailedIds == IdsWhere(game_ids, resp.box, FALSE)

FetchReturned == pc = "main_players"

(* C1: in fetch_boxscores every child call but the first starts at least   *)
(* MIN_INTERVAL after the previous child call started, and no two child    *)
(* calls are issued without a sleep between them, whether or not the       *)
(* earlier call failed.                                                    *)
C1_MinSpacing ==
  /\ \A k \in 2..Len(CallsOf(trace)) :
       CallsOf(trace)[k].at - CallsOf(trace)[k - 1].at >= MIN_INTERVAL
  /\ \A p \in 1..(Len(trace) - 1) : ~(IsCall(trace[p]) /\ IsCall(trace[p + 1]))

(* C2: the data frame fetch_boxscores returns holds exactly the batches of *)
(* the ids whose call succeeded, in the order of the ids, each batch in    *)
(* the order the upstream returned it; a failing id neither ends the loop  *)
(* nor touches the rows of another id.                                     *)
C2_ConcatOfSuccesses ==
  FetchReturned =>
    /\ Len(resp.box) = Len(game_ids)
    /\ player_stats_df.rows =
         Flatten([k \in DOMAIN SucceededIds |->
                    [j \in DOMAIN boxData[SucceededIds[k]] |->
                       [game_id |-> SucceededIds[k],
                        player |-> boxData[SucceededIds[k]][j]]]])

C2_Witness ==
  /\ FetchReturned
  /\ resp.box = <<FALSE, TRUE>>
  /\ Len(player_stats_df.rows) = 2
  /\ player_stats_df.rows[1].player = 2

(* C7: fetch_boxscores calls the upstream once per element of game_ids, in *)
(* the order of game_ids, whatever calls fail: while the loop is at index  *)
(* i the calls made are the first i - 1 elements, and when it returns they *)
(* are game_ids itself.                                                    *)
C7_OneCallPerIdInOrder ==
  /\ pc = "box_loop" =>
       /\ i \in 1..(Len(game_ids) + 1)
       /\ CallIds(trace) = SubSeq(game_ids, 1, i - 1)
  /\ FetchReturned => CallIds(trace) = game_ids

C7_Witness ==
  /\ FetchReturned
  /\ game_ids = <<2, 2>>
  /\ resp.box = <<FALSE, TRUE>>
  /\ Len(CallsOf(trace)) = 2

\* The ids of a list of (id, error) entries.
FailureIds(fs) == [k \in DOMAIN fs |-> fs[k][1]]

(* C8 as claimed: next to the data frame, fetch_boxscores returns a list   *)
(* with one (id, error) entry per failed id, in order, and no other entry. *)
C8_ReturnsFailureList ==
  FetchReturned => FailureIds(Tail(FetchBoxscoresReturn)) = FailedIds

(* C8 as amended: fetch_boxscores returns the data frame alone; a failed   *)
(* id is only printed, once per failure and in order, and an id whose call *)
(* succeeded is not printed.                                               *)
C8_FailuresOnlyPrinted ==
  /\ pc = "box_loop" => errlog = FailedIds
  /\ FetchReturned =>
       /\ FetchBoxscoresReturn = <<player_stats_df>>
       /\ errlog = FailedIds

C8_Witness ==
  /\ FetchReturned
  /\ resp.box = <<TRUE, FALSE>>
  /\ errlog = <<game_ids[2]>>
  /\ Len(FetchBoxscoresReturn) = 1


(* ------------------------ observations of a run ------------------------ *)
RunDone == pc = "done"

Loading == pc \in {"connect", "put", "copy", "close"}

OpsOn(kind) == SelectSeq(ops, LAMBDA o : o.kind = kind)

\* Every write and every load step of this run succeeded.
CleanRun == RunDone /\ outcome = "success" /\ written = Kinds /\ wfail = {}

(* C3: when main returns early because games_df or player_stats_df is      *)
(* empty, the task issues no PUT and no COPY in that run and reports the   *)
(* run as failed, whatever files are on disk.                              *)
C3_EmptyAbortsBeforeLoad ==
  extAbort \in {"no_games", "no_players"} =>
    /\ ops = <<>>
    /\ ~Loading
    /\ RunDone => outcome = "failed"

\* The rows a run added to a table that held before and holds after.
Added(before, after) == SubSeq(after, Len(before) + 1, Len(after))

SameAsPrevRun == CleanRun /\ prev.valid /\ prev.clean /\ prev.resp = resp

(* C4 as claimed: a second run with the same upstream responses leaves the *)
(* same files and leaves every table as the first run left it.             *)
C4_RerunIdempotent ==
  SameAsPrevRun => files = prev.files /\ tables = prev.tables1

(* C4 as amended: a second run with the same upstream responses, every     *)
(* step of both runs succeeding, leaves the same files, and its COPY with  *)
(* FORCE = TRUE appends the staged rows once more: every table ends with   *)
(* what the first run left followed by a second copy of the rows the first *)
(* run added.                                                              *)
C4_RerunAppendsAgain ==
  SameAsPrevRun =>
    /\ files = prev.files
    /\ \A k \in Kinds :
         tables[k] = prev.tables1[k] \o Added(prev.tables0[k], prev.tables1[k])

C4_Witness ==
  /\ SameAsPrevRun
  /\ gameLog = SeasonLog
  /\ tables["games"] = SeasonLog \o SeasonLog
  /\ Len(tables["player_stats"]) = 2 * Len(files["player_stats"].rows)
  /\ files["player_stats"].rows # <<>>

GamesLoadFailed == \E k \in DOMAIN ops : ops[k].kind = "games" /\ ~ops[k].ok

(* C5 as claimed: when the PUT or the COPY of games fails, the PUT of      *)
(* player_stats is still issued in the same run.                           *)
C5_LoadsIndependent ==
  (RunDone /\ GamesLoadFailed) => \E k \in DOMAIN ops : ops[k].kind = "player_stats"

(* C5 as amended: when the PUT or the COPY of games fails, the error ends  *)
(* the load loop: the run is over and reported as failed, and no PUT and   *)
(* no COPY of player_stats is issued in that run.                          *)
C5_GamesFailureEndsLoad ==
  GamesLoadFailed =>
    /\ RunDone
    /\ outcome = "failed"
    /\ OpsOn("player_stats") = <<>>

C5_Witness ==
  /\ RunDone
  /\ ops = <<Op("PUT", "games", TRUE), Op("COPY", "games", FALSE)>>
  /\ files["player_stats"].exists

ScenarioD ==
  ops = <<Op("PUT", "games", TRUE), Op("COPY", "games", TRUE),
          Op("PUT", "player_stats", TRUE), Op("COPY", "player_stats", FALSE)>>

(* C6: when games is loaded and the COPY of player_stats fails, the run is *)
(* reported as failed, GAMES holds its rows of before the run followed by  *)
(* the rows of the staged games object, and PLAYER_STATS is as it was      *)
(* before the run.                                                         *)
C6_PartialLoadFailure ==
  ScenarioD =>
    /\ RunDone
    /\ outcome = "failed"
    /\ tables["games"] = tables0["games"] \o stage["games"].rows
    /\ tables["player_stats"] = tables0["player_stats"]

C6_Witness ==
  /\ ScenarioD
  /\ RunDone
  /\ Len(tables["games"]) = 4
  /\ Len(tables0["games"]) = 2
  /\ Len(stage["player_stats"].rows) = 2
  /\ Len(tables["player_stats"]) = 2

(* C9: when to_csv raises for a dataset, no PUT and no COPY is issued for  *)
(* that dataset in that run and the run is reported as failed, whatever    *)
(* file was at the path before.                                            *)
C9_WriteFailureFatal ==
  \A k \in wfail :
    /\ OpsOn(k) = <<>>
    /\ RunDone => outcome = "failed"

GamesFetched == pc \notin {"idle", "fetch_games"}

MainPastGames == pc \notin {"idle", "fetch_games", "main_games"}

(* C10 as claimed: fetch_games yields an empty data set only when the      *)
(* upstream call succeeded with zero records; a failed call yields         *)
(* something else.                                                         *)
C10_FailureDistinguished ==
  (GamesFetched /\ resp.games = "fail") => ~IsEmpty(games_df)

(* C10 as amended: fetch_games returns an empty data frame both when the   *)
(* upstream call fails and when it succeeds with zero records, and main    *)
(* reacts to both in the same way: it returns early for want of games,     *)
(* with no child call made and no file written.                            *)
C10_FailureLooksEmpty ==
  /\ (GamesFetched /\ resp.games = "fail") => games_df = EmptyDataFrame
  /\ (GamesFetched /\ (resp.games = "fail" \/ gameLog = <<>>)) =>
       /\ IsEmpty(games_df)
       /\ pc # "box_loop"
       /\ MainPastGames =>
            /\ extAbort = "no_games"
            /\ resp.box = <<>>
            /\ game_ids = <<>>
            /\ written = {} /\ wfail = {}

C10_Witness ==
  /\ pc = "check_files"
  /\ resp.games = "fail"
  /\ gameLog # <<>>
  /\ extAbort = "no_games"

(* C11: once the warehouse connection was opened, the cursor and the       *)
(* connection are closed when the task ends, on the paths where a PUT or a *)
(* COPY raised as on the path where everything succeeded.                  *)
C11_ClosedOnEveryExit ==
  (RunDone /\ conn # "none") => conn = "closed" /\ cursor = "closed"

Interrupted == extAbort = "signal"

(* C12 as claimed: when a signal arrives in the middle of the child-fetch  *)
(* batch, the records of the calls that completed are written and loaded   *)
(* by the same run.                                                        *)
C12_CancelKeepsWork ==
  (RunDone /\ Interrupted /\ SucceededIds # <<>>) =>
    /\ "player_stats" \in written
    /\ \E k \in DOMAIN ops : ops[k].kind = "player_stats"

(* C12 as amended: when a signal ends the extractor in the middle of the   *)
(* child-fetch batch, no further child call is issued, but nothing is      *)
(* assembled, written or loaded: the records collected so far are lost,    *)
(* the files on disk are as they were when the run started, no PUT and no  *)
(* COPY is issued and the run is reported as failed.                       *)
C12_InterruptLosesBatch ==
  Interrupted =>
    /\ RunDone
    /\ outcome = "failed"
    /\ Len(resp.box) < Len(game_ids)
    /\ all_player_stats = <<>>
    /\ player_stats_df = EmptyDataFrame
    /\ written = {} /\ wfail = {}
    /\ files = files0 /\ dirExists = dir0
    /\ ops = <<>>

C12_Witness ==
  /\ RunDone
  /\ Interrupted
  /\ game_ids = <<1, 2>>
  /\ resp.box = <<TRUE>>
  /\ files0["player_stats"].exists

\* The output names of a rename map.
OutputCols(m) == {m[c] : c \in DOMAIN m}

(* C13: the data frame fetch_games returns holds only output columns of    *)
(* its rename map, and the data frame fetch_boxscores returns holds only   *)
(* output columns of its rename map and game_id: a raw column that is no   *)
(* key of the map does not appear.                                         *)
C13_OnlyMappedColumns ==
  /\ (GamesFetched /\ resp.games = "ok") =>
       games_df.cols \subseteq OutputCols(GamesRenameMap)
  /\ player_stats_df.cols \subseteq OutputCols(BoxRenameMap) \cup {"game_id"}

\* The columns of a box score after tagging and renaming.
ChildSchema ==
  {"game_id"} \cup OutputCols(BoxRenameMap) \cup (RawBoxCols \ DOMAIN BoxRenameMap)

(* C14 as claimed: the data frame fetch_boxscores returns has one column   *)
(* set, whether it is empty or not.                                        *)
C14_OneSchema ==
  FetchReturned => player_stats_df.cols = ChildSchema

(* C14 as amended: the data frame fetch_boxscores returns has the renamed  *)
(* columns and game_id when at least one call succeeded, also when it      *)
(* holds no row; when no id was given or every call failed it has no       *)
(* column at all.                                                          *)
C14_SchemaOnlyWithBatches ==
  FetchReturned =>
    player_stats_df.cols = IF SucceededIds = <<>> THEN {} ELSE ChildSchema

C14_Witness ==
  /\ FetchReturned
  /\ resp.box = <<FALSE, FALSE>>
  /\ player_stats_df.cols = {}
  /\ player_stats_df.rows = <<>>

IsOp(o, cmd, kind) == o.cmd = cmd /\ o.kind = kind

DatasetOf(kind) == IF kind = "games" THEN games_df ELSE player_stats_df

(* C16: the loader stages a file only when it exists and its row count     *)
(* equals the size of the dataset the run produced: whenever a PUT of a    *)
(* file was issued, the file at the path has as many rows as this run's    *)
(* data frame of that name.                                                *)
C16_RowCountVerified ==
  \A n \in DOMAIN ops :
    ops[n].cmd = "PUT" =>
      /\ files[ops[n].kind].exists
      /\ Len(files[ops[n].kind].rows) = Len(DatasetOf(ops[n].kind).rows)

\* The players of the returned rows that carry game_id g, in order.
PlayersTagged(g) ==
  LET rs == SelectSeq(player_stats_df.rows, LAMBDA r : r.game_id = g)
  IN [k \in DOMAIN rs |-> rs[k].player]

\* The successful calls for id g, in order.
SuccessesOf(g) == SelectSeq(SucceededIds, LAMBDA x : x = g)

(* C17: in the frame fetch_boxscores returns every row carries the game_id *)
(* of the id whose call returned it: the rows tagged g are exactly what    *)
(* the successful calls for g returned; every game_id is one of the parent *)
(* ids taken from games_df; an id none of whose calls succeeded has no row.*)
C17_RowsTaggedByTheirCall ==
  FetchReturned =>
    /\ \A k \in DOMAIN player_stats_df.rows :
         /\ player_stats_df.rows[k].game_id \in Range(game_ids)
         /\ player_stats_df.rows[k].game_id \in Range(games_df.rows)
         /\ player_stats_df.rows[k].game_id \in Range(SucceededIds)
    /\ \A g \in GameIds :
         PlayersTagged(g) = Flatten([k \in DOMAIN SuccessesOf(g) |-> boxData[g]])
    /\ \A g \in Range(FailedIds) \ Range(SucceededIds) : PlayersTagged(g) = <<>>

C17_Witness ==
  /\ FetchReturned
  /\ Len(game_ids) = 2
  /\ game_ids[1] # game_ids[2]
  /\ resp.box = <<FALSE, TRUE>>
  /\ boxData[game_ids[1]] # <<>>
  /\ Len(player_stats_df.rows) = 2
  /\ player_stats_df.rows[1].game_id = game_ids[2]

AbortedOnEmpty == extAbort \in {"no_games", "no_players"}

(* C18: when the extractor ends because games_df or player_stats_df is     *)
(* empty, it has created no directory and written no file: the output      *)
(* directory and both files are as they were when the run began, so the    *)
(* artifacts of an earlier run are untouched.                              *)
C18_AbortTouchesNothing ==
  AbortedOnEmpty =>
    /\ dirExists = dir0
    /\ files = files0
    /\ written = {}
    /\ wfail = {}

C18_Witness ==
  /\ extAbort = "no_players"
  /\ runs = 2
  /\ dir0
  /\ files0["games"].exists
  /\ files0["player_stats"].exists
  /\ files = files0
  /\ RunDone

(* C19: the task restores the working directory it changed: whenever a run *)
(* has ended, by success or by any failure, the process is back in the     *)
(* directory it was in before the run.                                     *)
C19_CwdRestored == RunDone => cwd = "airflow_home"

(* C20: the run-date the task computes before it starts the extractor      *)
(* equals the run-date the extractor computes before it writes, also when  *)
(* midnight passes between the two, so the directory the task checks and   *)
(* loads from is the directory the extractor of the same run wrote to.     *)
C20_SameRunDate == ext_today # 0 => ext_today = today_str

====
